---- MODULE Spec2Model ----
(***************************************************************************)
(* pmlogctl: the command line control surface of the PmLog logging         *)
(* library (src/src/PmLogCtl.c, src/src/PmLogCtlUtil.c).                   *)
(*                                                                         *)
(* C strings are sequences of byte values (1..255); the terminating NUL    *)
(* is implicit.  A context handle (PmLogContext) is the 1-based position   *)
(* of the context in the library's registry.                               *)
(***************************************************************************)
EXTENDS Integers, Sequences, FiniteSets, TLC

VARIABLES
    registry,       \* the library's contexts, in enumeration order: [name, level]
    registry0,      \* the registry when the running command started
    extLog,         \* the changes other processes made to the registry meanwhile
    stale,          \* the byte found behind a name's NUL in a reused name buffer
    flag_silence,   \* PmLogCtl.c:38
    pc,             \* position of the running command
    argv,           \* the command's arguments, argv[0] is the command word
    result,         \* the Result the command returned, "none" while it runs
    out,            \* lines written to stdout
    err,            \* lines written to stderr
    snapshot,       \* ContextsInfo_t filled by PrvGetContextList, with its return code
    mName, mPattern, mResult,   \* PrvMatchContextName: arguments and return value
    setv,           \* DoCmdSet's locals
    kv,             \* DoCmdLogKV's locals and the PmLogString call it made
    strv            \* the arguments of a mystrcpy or mystrcat call and its buffer

vars == <<registry, registry0, extLog, stale, flag_silence, pc, argv, result, out, err,
          snapshot, mName, mPattern, mResult, setv, kv, strv>>

-----------------------------------------------------------------------------
(* Bytes *)

CH_STAR  == 42      \* '*'
CH_DOT   == 46      \* '.'
CH_EQ    == 61      \* '='
CH_TAB   == 9       \* '\t'
CH_NL    == 10      \* '\n'
CH_QUOTE == 34      \* '"'
CH_COLON == 58      \* ':'
CH_COMMA == 44      \* ','
CH_LBRACE == 123    \* '{'
CH_RBRACE == 125    \* '}'

\* A NULL char pointer; no C string holds a 0 byte, so it is no string.
NULL == <<0>>

\* kPmLogGlobalContextName, "<global>"
kPmLogGlobalContextName == <<60, 103, 108, 111, 98, 97, 108, 62>>

\* tolower() in the C locale
ToLower(c) == IF c >= 65 /\ c <= 90 THEN c + 32 ELSE c

\* Offset of the first c in s, -1 for strchr's NULL
Strchr(s, c) ==
    IF \E i \in 1..Len(s) : s[i] = c
    THEN (CHOOSE i \in 1..Len(s) : s[i] = c /\ \A j \in 1..(i - 1) : s[j] # c) - 1
    ELSE -1

\* strcmp(a, b) == 0
StrEq(a, b) == a = b

\* The byte at offset i of the buffer that holds the C string s: the string,
\* its NUL, and behind it whatever the buffer held before.
MemByte(s, i) ==
    IF i < Len(s) THEN s[i + 1]
    ELSE IF i = Len(s) THEN 0
    ELSE stale

\* memcmp(s, p, n) == 0, p having at least n bytes
MemEq(s, p, n) == \A i \in 0..(n - 1) : MemByte(s, i) = p[i + 1]

\* strcasecmp(a, b): the difference of the first pair of folded bytes that
\* differ, the terminating NUL included
Strcasecmp(a, b) ==
    LET za == a \o <<0>>
        zb == b \o <<0>>
        stop(i) == ToLower(za[i]) # ToLower(zb[i]) \/ za[i] = 0
        k == CHOOSE i \in 1..Len(za) : stop(i) /\ \A j \in 1..(i - 1) : ~stop(j)
    IN  ToLower(za[k]) - ToLower(zb[k])

-----------------------------------------------------------------------------
(* Context name matching *)

PrvIsWildcardContextName_Never(matchContextName) == FALSE

PrvIsWildcardContextName(matchContextName) ==
    Strchr(matchContextName, CH_STAR) # -1

PrvMatchContextName_NoLengthCheck(contextName, matchContextName) ==
    IF matchContextName = NULL THEN TRUE
    ELSE LET matchWildStr == Strchr(matchContextName, CH_STAR)
         IN  IF matchWildStr = -1
             THEN StrEq(contextName, matchContextName)
             ELSE \A i \in 0..(matchWildStr - 1) :
                     i < Len(contextName) => contextName[i + 1] = matchContextName[i + 1]

PrvMatchContextName(contextName, matchContextName) ==
    IF matchContextName = NULL THEN TRUE
    ELSE LET matchWildStr == Strchr(matchContextName, CH_STAR)
         IN  IF matchWildStr = -1
             THEN StrEq(contextName, matchContextName)
             ELSE LET matchPrefixLen == matchWildStr
                  IN  IF matchPrefixLen = 0 THEN TRUE
                      ELSE MemEq(contextName, matchContextName, matchPrefixLen)

PrvResolveContextNameAlias(contextName) ==
    IF StrEq(contextName, <<CH_DOT>>) THEN kPmLogGlobalContextName ELSE contextName

-----------------------------------------------------------------------------
(* The logging library, as pmlogctl calls it *)

kPmLogErr_None == "kPmLogErr_None"
kPmLogErr_Unknown == "kPmLogErr_Unknown"

\* A library call that the environment makes fail: the count query, the
\* fetch of the handle or of the name of entry `at`, the level-set call on
\* the at-th call, malloc.
NoFail == [op |-> "none", at |-> 0]
FailOf(o, i) == [op |-> o, at |-> i]

\* PmLogFindContext: the handle of the context of that name, 0 when absent
PmLogFindContext(contextName) ==
    IF \E h \in 1..Len(registry) : registry[h].name = contextName
    THEN CHOOSE h \in 1..Len(registry) : registry[h].name = contextName
    ELSE 0

\* PmLogSetContextLevel on a registry
PmLogSetContextLevel(reg, context, level) ==
    [reg EXCEPT ![context].level = level]

\* PmLogLevelToString: NULL for a number that is no level
PmLogLevelToString(level) ==
    CASE level = -1 -> "none"
      [] level = 0 -> "emerg"
      [] level = 1 -> "alert"
      [] level = 2 -> "crit"
      [] level = 3 -> "err"
      [] level = 4 -> "warning"
      [] level = 5 -> "notice"
      [] level = 6 -> "info"
      [] level = 7 -> "debug"
      [] OTHER -> "NULL"

Levels == -1..7

-----------------------------------------------------------------------------
(* Output *)

InfoPrint(stream, line) == IF flag_silence THEN stream ELSE Append(stream, line)
ErrPrint(stream, line) == IF flag_silence THEN stream ELSE Append(stream, line)

-----------------------------------------------------------------------------
(* The context list *)

\* Number of user contexts the library holds; ContextsInfo_t has one slot more.
PMLOG_MAX_NUM_CONTEXTS == 2

\* ContextInfo_t after memset
EmptyContextInfo == [context |-> 0, contextName |-> <<>>]

\* ContextsInfo_t after memset, with the bookkeeping of the listing: the
\* return code, the library calls made and the slots written.
EmptyContextsInfo ==
    [logErr |-> kPmLogErr_None,
     numContexts |-> 0,
     contextInfos |-> [k \in 0..PMLOG_MAX_NUM_CONTEXTS |-> EmptyContextInfo],
     calls |-> <<>>,
     written |-> {}]

\* contextInfos[slot].f = v; a slot outside the array is recorded in `written` only
WriteSlot(st, slot, f, v) ==
    [st EXCEPT !.written = @ \cup {slot},
               !.contextInfos = IF slot \in DOMAIN @
                                THEN [@ EXCEPT ![slot][f] = v]
                                ELSE @]

SlotInRange_Unchecked(numContexts) == TRUE

\* PmLogCtl.c:250
SlotInRange(numContexts) ==
    numContexts >= 0 /\ numContexts < PMLOG_MAX_NUM_CONTEXTS + 1

\* The for loop of PrvGetContextList from index i on
RECURSIVE PrvGetContextListLoop(_, _, _, _, _)
PrvGetContextListLoop(i, n, st, matchContextName, fail) ==
    IF i >= n THEN st
    ELSE IF ~SlotInRange(st.numContexts)
    THEN [st EXCEPT !.logErr = kPmLogErr_Unknown]
    ELSE
    LET slot == st.numContexts
        s1 == [WriteSlot(st, slot, "context", 0) EXCEPT !.calls = Append(@, <<"ind", i>>)]
    IN  IF fail = FailOf("ind", i)
        THEN [s1 EXCEPT !.logErr = "kPmLogErr_InvalidContextIndex"]
        ELSE
        LET s2 == WriteSlot(s1, slot, "context", i + 1)
            s3 == [WriteSlot(s2, slot, "contextName", <<>>)
                       EXCEPT !.calls = Append(@, <<"name", i>>)]
        IN  IF fail = FailOf("name", i)
            THEN [s3 EXCEPT !.logErr = "kPmLogErr_InvalidContext"]
            ELSE
            LET name == registry[i + 1].name
                s4 == WriteSlot(s3, slot, "contextName", name)
            IN  IF ~PrvMatchContextName(name, matchContextName)
                THEN PrvGetContextListLoop(i + 1, n, s4, matchContextName, fail)
                ELSE IF s4.numContexts >= PMLOG_MAX_NUM_CONTEXTS + 1
                THEN [s4 EXCEPT !.logErr = kPmLogErr_Unknown]
                ELSE PrvGetContextListLoop(i + 1, n,
                         [s4 EXCEPT !.numContexts = @ + 1], matchContextName, fail)

SortCmpContextInfoByName_CaseSensitive(c1, c2) ==
    LET za == c1.contextName \o <<0>>
        zb == c2.contextName \o <<0>>
        stop(i) == za[i] # zb[i] \/ za[i] = 0
        k == CHOOSE i \in 1..Len(za) : stop(i) /\ \A j \in 1..(i - 1) : ~stop(j)
    IN  za[k] - zb[k]

SortCmpContextInfoByName(c1, c2) ==
    Strcasecmp(c1.contextName, c2.contextName)

\* qsort of the first num slots: every arrangement of them that the
\* comparison function accepts as ordered (elements that compare equal
\* come out in an unspecified order)
Qsort(contextInfos, num) ==
    LET ordered(p) == \A i, j \in 0..(num - 1) :
            i < j => SortCmpContextInfoByName(contextInfos[p[i]], contextInfos[p[j]]) <= 0
    IN  { [k \in DOMAIN contextInfos |-> IF k < num THEN contextInfos[p[k]] ELSE contextInfos[k]] :
            p \in { q \in Permutations(0..(num - 1)) : ordered(q) } }

PrvGetContextList_PartialSuccess(matchContextName, fail) ==
    LET st0 == [EmptyContextsInfo EXCEPT !.calls = <<<<"count", 0>>>>]
        n == Len(registry)
    IN  IF fail.op = "count"
        THEN { [st0 EXCEPT !.logErr = "kPmLogErr_InvalidParameter"] }
        ELSE IF n <= 0
        THEN { [st0 EXCEPT !.logErr = kPmLogErr_Unknown] }
        ELSE LET st == PrvGetContextListLoop(0, n, st0, matchContextName, fail)
             IN  IF st.numContexts > 0
                 THEN { [st EXCEPT !.logErr = kPmLogErr_None, !.contextInfos = s] :
                            s \in Qsort(st.contextInfos, st.numContexts) }
                 ELSE { st }

\* PrvGetContextList: the set of snapshots it may return
PrvGetContextList(matchContextName, fail) ==
    LET st0 == [EmptyContextsInfo EXCEPT !.calls = <<<<"count", 0>>>>]
        n == Len(registry)
    IN  IF fail.op = "count"
        THEN { [st0 EXCEPT !.logErr = "kPmLogErr_InvalidParameter"] }
        ELSE IF n <= 0
        THEN { [st0 EXCEPT !.logErr = kPmLogErr_Unknown] }
        ELSE LET st == PrvGetContextListLoop(0, n, st0, matchContextName, fail)
             IN  IF st.logErr # kPmLogErr_None THEN { st }
                 ELSE IF st.numContexts > 0
                 THEN { [st EXCEPT !.contextInfos = s] : s \in Qsort(st.contextInfos, st.numContexts) }
                 ELSE { st }

-----------------------------------------------------------------------------
(* Inputs *)

MaxNameLen == 3     \* longest candidate name given to the matcher
MaxPatLen == 3      \* longest pattern given to the matcher
MaxArgLen == 2      \* longest context argument of a command
MaxReg == 4         \* most contexts in the registry

NameAlphabet == {97, 65, 66}            \* a A B
PatAlphabet == NameAlphabet \cup {CH_STAR}
StaleBytes == {0, 97}

StrsUpTo(alphabet, n) == UNION { [1..k -> alphabet] : k \in 0..n }

\* Names of registered contexts: a, A, aB, B, <global>
NamePool == { <<97>>, <<65>>, <<97, 66>>, <<66>>, kPmLogGlobalContextName }

\* Context arguments of show and set: every short string, and the alias "."
ContextArgs == StrsUpTo(PatAlphabet, MaxArgLen) \cup { <<CH_DOT>> }

\* Registries of at most MaxReg contexts with distinct names
Registries(levels) ==
    UNION { { r \in [1..k -> [name : NamePool, level : levels]] :
                \A i, j \in 1..k : i # j => r[i].name # r[j].name } : k \in 0..MaxReg }

CmdShow == <<115, 104, 111, 119>>
CmdSet == <<115, 101, 116>>
CmdLogKV == <<108, 111, 103, 107, 118>>

\* argv[k] of the C code
Arg(k) == argv[k + 1]
argc == Len(argv)

Idle ==
    /\ registry = <<>> /\ registry0 = <<>> /\ extLog = <<>> /\ strv = <<>> /\ stale = 0 /\ flag_silence = FALSE
    /\ pc = "idle" /\ argv = <<>> /\ result = "none" /\ out = <<>> /\ err = <<>>
    /\ snapshot = EmptyContextsInfo
    /\ mName = <<>> /\ mPattern = NULL /\ mResult = FALSE
    /\ setv = <<>> /\ kv = <<>>

-----------------------------------------------------------------------------
(* PrvMatchContextName on its own *)

InitMatch ==
    /\ registry = <<>> /\ registry0 = <<>> /\ extLog = <<>> /\ strv = <<>> /\ flag_silence = FALSE
    /\ argv = <<>> /\ result = "none" /\ out = <<>> /\ err = <<>>
    /\ snapshot = EmptyContextsInfo /\ setv = <<>> /\ kv = <<>>
    /\ pc = "match"
    /\ stale \in StaleBytes
    /\ mName \in StrsUpTo(NameAlphabet, MaxNameLen)
    /\ mPattern \in StrsUpTo(PatAlphabet, MaxPatLen) \cup {NULL}
    /\ mResult = FALSE

MatchCall ==
    /\ pc = "match"
    /\ mResult' = PrvMatchContextName(mName, mPattern)
    /\ pc' = "done"
    /\ UNCHANGED <<registry, registry0, strv, extLog, stale, flag_silence, argv, result, out, err,
                   snapshot, mName, mPattern, setv, kv>>

NextMatch == MatchCall

SpecMatch == InitMatch /\ [][NextMatch]_vars

\* The matcher of the specification, 4.1
RefMatches(name, p) ==
    IF p = NULL THEN TRUE
    ELSE IF \A i \in 1..Len(p) : p[i] # CH_STAR THEN name = p
    ELSE LET k == (CHOOSE i \in 1..Len(p) : p[i] = CH_STAR /\ \A j \in 1..(i - 1) : p[j] # CH_STAR) - 1
         IN  k <= Len(name) /\ SubSeq(name, 1, k) = SubSeq(p, 1, k)

\* C1: PrvMatchContextName returns true for a NULL pattern, equality of name
\* and pattern for a pattern without '*', and otherwise whether the k bytes
\* before the pattern's first '*' are a prefix of the name (false for a name
\* shorter than k), whatever follows the '*'.
C1_MatchAgreesWithReference ==
    pc = "done" => mResult = RefMatches(mName, mPattern)

\* a name shorter than the prefix of a wildcard pattern was rejected
C1_Witness ==
    /\ pc = "done" /\ mResult = FALSE
    /\ mPattern # NULL /\ Strchr(mPattern, CH_STAR) > Len(mName)
    /\ Len(mName) > 0
    /\ SubSeq(mPattern, 1, Len(mName)) = mName

-----------------------------------------------------------------------------
(* show [<context>] *)

ListFails ==
    { NoFail, FailOf("malloc", 0), FailOf("count", 0) }
        \cup { FailOf(o, i) : o \in {"ind", "name"}, i \in 0..(MaxReg - 1) }

\* The line ShowContext prints for a snapshot entry
ShowContext(contextInfo) ==
    LET levelStr == PmLogLevelToString(registry[contextInfo.context].level)
    IN  [t |-> "Context", name |-> contextInfo.contextName,
         level |-> IF levelStr = "NULL" THEN "Unknown" ELSE levelStr]

\* The lines of the first num snapshot entries, in snapshot order
RECURSIVE ShowContexts(_, _, _, _)
ShowContexts(stream, contextInfos, i, num) ==
    IF i >= num THEN stream
    ELSE ShowContexts(InfoPrint(stream, ShowContext(contextInfos[i])), contextInfos, i + 1, num)

\* The pattern show and set hand to PrvGetContextList
ShowPattern == IF argc >= 2 THEN PrvResolveContextNameAlias(Arg(1)) ELSE NULL

DoCmdShow(fail) ==
    /\ pc = "show"
    /\ pc' = "done"
    /\ LET matchContextName == ShowPattern
       IN  IF argc >= 3
           THEN /\ err' = ErrPrint(err, [t |-> "InvalidParameter", arg |-> Arg(2)])
                /\ result' = "RESULT_PARAM_ERR"
                /\ UNCHANGED <<out, snapshot>>
           ELSE IF fail.op = "malloc"
           THEN /\ err' = ErrPrint(err, [t |-> "OutOfMemory"])
                /\ result' = "RESULT_RUN_ERR"
                /\ UNCHANGED <<out, snapshot>>
           ELSE \E contextInfos \in PrvGetContextList(matchContextName, fail) :
                /\ snapshot' = contextInfos
                /\ IF contextInfos.logErr # kPmLogErr_None
                   THEN /\ err' = ErrPrint(err, [t |-> "ErrorGettingContextsInfo",
                                                 logErr |-> contextInfos.logErr])
                        /\ result' = "RESULT_RUN_ERR"
                        /\ out' = out
                   ELSE /\ out' = ShowContexts(out, contextInfos.contextInfos, 0,
                                               contextInfos.numContexts)
                        /\ IF matchContextName # NULL /\ contextInfos.numContexts = 0
                           THEN /\ err' = ErrPrint(err,
                                      IF PrvIsWildcardContextName(matchContextName)
                                      THEN [t |-> "NoContextsMatched", name |-> matchContextName]
                                      ELSE [t |-> "ContextNotFound", name |-> matchContextName])
                                /\ result' = "RESULT_RUN_ERR"
                           ELSE /\ err' = err
                                /\ result' = "RESULT_OK"
    /\ UNCHANGED <<registry, registry0, strv, extLog, stale, flag_silence, argv,
                   mName, mPattern, mResult, setv, kv>>

ShowArgvs ==
    { <<CmdShow>> } \cup { <<CmdShow, a>> : a \in ContextArgs }
        \cup { <<CmdShow, a, <<97>> >> : a \in { <<97>> } }

InitList ==
    /\ registry \in Registries({5})
    /\ registry0 = registry
    /\ extLog = <<>> /\ strv = <<>>
    /\ stale \in StaleBytes
    /\ flag_silence = FALSE
    /\ pc = "show"
    /\ argv \in ShowArgvs
    /\ result = "none" /\ out = <<>> /\ err = <<>>
    /\ snapshot = EmptyContextsInfo
    /\ mName = <<>> /\ mPattern = NULL /\ mResult = FALSE
    /\ setv = <<>> /\ kv = <<>>

NextList == \E fail \in ListFails : DoCmdShow(fail)

SpecList == InitList /\ [][NextList]_vars

\* PrvGetContextList ran and returned kPmLogErr_None
ListSucceeded == snapshot.calls # <<>> /\ snapshot.logErr = kPmLogErr_None

\* The registry handles whose name matches the pattern p (specification 4.1)
Matching(p) == { h \in 1..Len(registry) : RefMatches(registry[h].name, p) }

\* The entries the snapshot returns
Retained == { snapshot.contextInfos[k] : k \in 0..(snapshot.numContexts - 1) }

\* C2: a successful PrvGetContextList returns every registry context whose
\* name matches the pattern exactly once, paired with its own name, returns
\* no other context, and orders the entries by non-decreasing
\* case-insensitive name.
C2_SnapshotIsSortedMatchSet ==
    pc = "done" /\ ListSucceeded =>
        /\ snapshot.numContexts = Cardinality(Matching(ShowPattern))
        /\ snapshot.numContexts <= PMLOG_MAX_NUM_CONTEXTS + 1
        /\ Retained = { [context |-> h, contextName |-> registry[h].name] :
                            h \in Matching(ShowPattern) }
        /\ \A i, j \in 0..(snapshot.numContexts - 1) :
              i < j => Strcasecmp(snapshot.contextInfos[i].contextName,
                                  snapshot.contextInfos[j].contextName) <= 0

\* a wildcard listing kept two contexts, skipped a third, and had to swap
\* the two it kept
C2_Witness ==
    /\ pc = "done" /\ ListSucceeded
    /\ ShowPattern # NULL /\ PrvIsWildcardContextName(ShowPattern)
    /\ snapshot.numContexts = 2
    /\ Len(registry) = 3
    /\ snapshot.contextInfos[0].context > snapshot.contextInfos[1].context

\* PrvGetContextList ran, with whatever outcome
ListRan == pc = "done" /\ snapshot.calls # <<>>

\* C10 as stated: a registry of more than PMLOG_MAX_NUM_CONTEXTS contexts
\* makes PrvGetContextList fail for every pattern, a returned snapshot has
\* 0 <= numContexts <= PMLOG_MAX_NUM_CONTEXTS, and no slot outside the
\* array is written.
C10_Original ==
    ListRan =>
        /\ Len(registry) > PMLOG_MAX_NUM_CONTEXTS => snapshot.logErr # kPmLogErr_None
        /\ snapshot.logErr = kPmLogErr_None =>
              snapshot.numContexts >= 0 /\ snapshot.numContexts <= PMLOG_MAX_NUM_CONTEXTS
        /\ snapshot.written \subseteq DOMAIN snapshot.contextInfos

\* C10 amended: the snapshot array has PMLOG_MAX_NUM_CONTEXTS + 1 slots;
\* PrvGetContextList fails whenever more contexts match than the array has
\* slots, a returned snapshot has 0 <= numContexts <= PMLOG_MAX_NUM_CONTEXTS + 1,
\* and no slot outside the array is written.
C10_SnapshotWithinArray ==
    ListRan =>
        /\ Cardinality(Matching(ShowPattern)) > PMLOG_MAX_NUM_CONTEXTS + 1 =>
              snapshot.logErr # kPmLogErr_None
        /\ snapshot.logErr = kPmLogErr_None =>
              snapshot.numContexts >= 0 /\ snapshot.numContexts <= PMLOG_MAX_NUM_CONTEXTS + 1
        /\ snapshot.written \subseteq 0..PMLOG_MAX_NUM_CONTEXTS

\* more contexts matched than the array holds: the listing failed with every
\* slot of the array used
C10_Witness ==
    /\ ListRan
    /\ Cardinality(Matching(ShowPattern)) > PMLOG_MAX_NUM_CONTEXTS + 1
    /\ snapshot.logErr = kPmLogErr_Unknown
    /\ snapshot.written = 0..PMLOG_MAX_NUM_CONTEXTS
    /\ snapshot.numContexts = PMLOG_MAX_NUM_CONTEXTS + 1

-----------------------------------------------------------------------------
(* set <context> <level> *)

\* A NULL int pointer; <<n>> points to the int n
NULLP == <<>>

\* PmLogStringToLevel: a pointer to the level of a label, NULL for no label
PmLogStringToLevel(levelStr) ==
    IF \E n \in Levels : PmLogLevelToString(n) = levelStr
    THEN << CHOOSE n \in Levels : PmLogLevelToString(n) = levelStr >>
    ELSE NULLP

\* DoCmdSet's locals on entry, with the handles PmLogSetContextLevel was
\* called on so far
SetLocals ==
    [matchContextName |-> NULL, matchedContext |-> 0, levelIntP |-> NULLP,
     contextInfos |-> EmptyContextsInfo, i |-> 0, setCalls |-> <<>>]

SetReturn(res, line) ==
    /\ pc' = "done"
    /\ result' = res
    /\ err' = ErrPrint(err, line)

\* The argument loop and the checks behind it, PmLogCtl.c:440-493
DoCmdSet_Args ==
    /\ pc = "set"
    /\ UNCHANGED <<registry, registry0, strv, extLog, stale, flag_silence, argv, out, snapshot,
                   mName, mPattern, mResult, kv>>
    /\ LET matchContextName == IF argc >= 2 THEN PrvResolveContextNameAlias(Arg(1)) ELSE NULL
           matchedContext == IF argc >= 2 /\ ~PrvIsWildcardContextName(matchContextName)
                             THEN PmLogFindContext(matchContextName) ELSE 0
           levelIntP == IF argc >= 3 THEN PmLogStringToLevel(Arg(2)) ELSE NULLP
           locals == [SetLocals EXCEPT !.matchContextName = matchContextName,
                                       !.matchedContext = matchedContext,
                                       !.levelIntP = levelIntP]
       IN  IF argc >= 2 /\ ~PrvIsWildcardContextName(matchContextName) /\ matchedContext = 0
           THEN /\ SetReturn("RESULT_PARAM_ERR",
                             [t |-> "ContextNotFound", name |-> matchContextName])
                /\ setv' = [locals EXCEPT !.levelIntP = NULLP]
           ELSE IF argc >= 3 /\ levelIntP = NULLP
           THEN /\ SetReturn("RESULT_PARAM_ERR", [t |-> "InvalidLevel", arg |-> Arg(2)])
                /\ setv' = locals
           ELSE IF argc >= 4
           THEN /\ SetReturn("RESULT_PARAM_ERR", [t |-> "InvalidParameter", arg |-> Arg(3)])
                /\ setv' = locals
           ELSE IF matchContextName = NULL
           THEN /\ SetReturn("RESULT_PARAM_ERR", [t |-> "ContextNotSpecified"])
                /\ setv' = locals
           ELSE IF levelIntP = NULLP
           THEN /\ SetReturn("RESULT_PARAM_ERR", [t |-> "LevelNotSpecified"])
                /\ setv' = locals
           ELSE /\ pc' = IF matchedContext = 0 THEN "set_list" ELSE "set_direct"
                /\ setv' = locals
                /\ UNCHANGED <<result, err>>

\* The wildcard branch up to the loop, PmLogCtl.c:495-522
DoCmdSet_List(fail) ==
    /\ pc = "set_list"
    /\ UNCHANGED <<registry, registry0, strv, extLog, stale, flag_silence, argv, out,
                   mName, mPattern, mResult, kv>>
    /\ IF fail.op = "malloc"
       THEN /\ SetReturn("RESULT_RUN_ERR", [t |-> "OutOfMemory"])
            /\ UNCHANGED <<setv, snapshot>>
       ELSE \E contextInfos \in PrvGetContextList(setv.matchContextName, fail) :
            /\ snapshot' = contextInfos
            /\ setv' = [setv EXCEPT !.contextInfos = contextInfos]
            /\ IF contextInfos.logErr # kPmLogErr_None
               THEN SetReturn("RESULT_RUN_ERR", [t |-> "ErrorGettingContextsInfo",
                                                 logErr |-> contextInfos.logErr])
               ELSE IF contextInfos.numContexts = 0
               THEN SetReturn("RESULT_RUN_ERR", [t |-> "NoContextsMatched",
                                                 name |-> setv.matchContextName])
               ELSE /\ pc' = "set_apply"
                    /\ UNCHANGED <<result, err>>

SetLevel_GoesOnAfterFailure(context, fail, nextPc) ==
    /\ out' = InfoPrint(out, [t |-> "SettingContextLevel",
                              name |-> IF pc = "set_direct" THEN setv.matchContextName
                                       ELSE setv.contextInfos.contextInfos[setv.i].contextName])
    /\ setv' = [setv EXCEPT !.setCalls = Append(@, context), !.i = @ + 1]
    /\ pc' = nextPc
    /\ IF fail.op = "set"
       THEN /\ result' = "RESULT_RUN_ERR"
            /\ err' = ErrPrint(err, [t |-> "ErrorSettingContextLogLevel"])
            /\ UNCHANGED registry
       ELSE /\ registry' = PmLogSetContextLevel(registry, context, setv.levelIntP[1])
            /\ result' = IF nextPc = "done" /\ result = "none" THEN "RESULT_OK" ELSE result
            /\ err' = err

\* One call of PmLogSetContextLevel and what follows it
SetLevel(context, fail, nextPc) ==
    /\ out' = InfoPrint(out, [t |-> "SettingContextLevel",
                              name |-> IF pc = "set_direct" THEN setv.matchContextName
                                       ELSE setv.contextInfos.contextInfos[setv.i].contextName])
    /\ IF fail.op = "set"
       THEN /\ SetReturn("RESULT_RUN_ERR", [t |-> "ErrorSettingContextLogLevel"])
            /\ setv' = [setv EXCEPT !.setCalls = Append(@, context)]
            /\ UNCHANGED registry
       ELSE /\ registry' = PmLogSetContextLevel(registry, context, setv.levelIntP[1])
            /\ setv' = [setv EXCEPT !.setCalls = Append(@, context), !.i = @ + 1]
            /\ pc' = nextPc
            /\ result' = IF nextPc = "done" THEN "RESULT_OK" ELSE result
            /\ err' = err

DoCmdSet_Apply_StopsAfterFirst(fail) ==
    /\ pc = "set_apply"
    /\ UNCHANGED <<registry0, strv, extLog, stale, flag_silence, argv, snapshot,
                   mName, mPattern, mResult, kv>>
    /\ SetLevel(setv.contextInfos.contextInfos[setv.i].context, fail, "done")

DoCmdSet_Apply_DetectsChange(fail) ==
    /\ pc = "set_apply"
    /\ UNCHANGED <<registry0, strv, extLog, stale, flag_silence, argv, snapshot,
                   mName, mPattern, mResult, kv>>
    /\ IF extLog # <<>>
       THEN /\ SetReturn("RESULT_RUN_ERR", [t |-> "RegistryChanged"])
            /\ UNCHANGED <<registry, out, setv>>
       ELSE SetLevel(setv.contextInfos.contextInfos[setv.i].context, fail,
                     IF setv.i + 1 < setv.contextInfos.numContexts THEN "set_apply" ELSE "done")

\* One iteration of the loop over the snapshot, PmLogCtl.c:524-540; falling
\* out of the loop returns RESULT_OK
DoCmdSet_Apply(fail) ==
    /\ pc = "set_apply"
    /\ UNCHANGED <<registry0, strv, extLog, stale, flag_silence, argv, snapshot,
                   mName, mPattern, mResult, kv>>
    /\ SetLevel(setv.contextInfos.contextInfos[setv.i].context, fail,
                IF setv.i + 1 < setv.contextInfos.numContexts THEN "set_apply" ELSE "done")

\* The exact-name branch, PmLogCtl.c:544-558
DoCmdSet_Direct(fail) ==
    /\ pc = "set_direct"
    /\ UNCHANGED <<registry0, strv, extLog, stale, flag_silence, argv, snapshot,
                   mName, mPattern, mResult, kv>>
    /\ SetLevel(setv.matchedContext, fail, "done")

SetFails == { NoFail, FailOf("set", 0) }

LevelArgs == { "info", "none", "bogus" }

SetArgvs ==
    { <<CmdSet>> } \cup { <<CmdSet, a>> : a \in { <<97>>, <<97, CH_STAR>> } }
        \cup { <<CmdSet, a, l>> : a \in ContextArgs, l \in LevelArgs }
        \cup { <<CmdSet, a, "info", "info">> : a \in { <<97, CH_STAR>> } }

\* The registry of the specification's example: network 3, network.wifi 5, ui 2
ScenarioRegistry ==
    << [name |-> <<97>>, level |-> 3], [name |-> <<97, 66>>, level |-> 5],
       [name |-> <<66>>, level |-> 2] >>

InitSet ==
    /\ registry \in Registries({5}) \cup {ScenarioRegistry}
    /\ registry0 = registry
    /\ extLog = <<>> /\ strv = <<>>
    /\ stale \in StaleBytes
    /\ flag_silence = FALSE
    /\ pc = "set"
    /\ argv \in SetArgvs
    /\ result = "none" /\ out = <<>> /\ err = <<>>
    /\ snapshot = EmptyContextsInfo
    /\ mName = <<>> /\ mPattern = NULL /\ mResult = FALSE
    /\ setv = SetLocals /\ kv = <<>>

NextSet ==
    \/ DoCmdSet_Args
    \/ \E fail \in ListFails : DoCmdSet_List(fail)
    \/ \E fail \in SetFails : DoCmdSet_Apply(fail)
    \/ \E fail \in SetFails : DoCmdSet_Direct(fail)

SpecSet == InitSet /\ [][NextSet]_vars

\* The pattern and the level a set command names
SetPattern == PrvResolveContextNameAlias(Arg(1))
SetLevelGiven == PmLogStringToLevel(Arg(2))[1]
HasStar(p) == \E i \in 1..Len(p) : p[i] = CH_STAR

\* The handles of the contexts that matched p when the command started
Targets(p) == { h \in 1..Len(registry0) : RefMatches(registry0[h].name, p) }

\* C3: after a set command that returned RESULT_OK, every context whose name
\* matches the pattern (for a pattern without '*': the one context of that
\* name) has the given level, and every other context has the level it had
\* before; no context was added, removed or renamed.
C3_SetChangesExactlyTargets ==
    pc = "done" /\ result = "RESULT_OK" =>
        /\ Targets(SetPattern) # {}
        /\ Len(registry) = Len(registry0)
        /\ \A h \in 1..Len(registry0) :
              /\ registry[h].name = registry0[h].name
              /\ registry[h].level = IF h \in Targets(SetPattern)
                                     THEN SetLevelGiven
                                     ELSE registry0[h].level

\* the example of the specification: set "a*" info on {a:3, aB:5, B:2}
C3_Witness ==
    /\ pc = "done" /\ result = "RESULT_OK"
    /\ registry0 = ScenarioRegistry
    /\ SetPattern = <<97, CH_STAR>>
    /\ registry[1].level = 6 /\ registry[2].level = 6 /\ registry[3].level = 2

\* an exact name changed one context among several
C3_WitnessExact ==
    /\ pc = "done" /\ result = "RESULT_OK"
    /\ ~HasStar(SetPattern) /\ Len(registry0) >= 2
    /\ \E h \in 1..Len(registry0) : registry[h].level # registry0[h].level

ErrLines(t) == { k \in 1..Len(err) : err[k].t = t }

\* C4 as stated, for runs in which every library call succeeds: a set whose
\* pattern matches no context fails, changes no level, and reports
\* "context not found" for a pattern without '*' and "no contexts matched"
\* for a pattern with '*'.
C4_Original ==
    pc = "done" /\ argc >= 2 /\ Targets(SetPattern) = {}
        /\ ErrLines("OutOfMemory") = {} /\ ErrLines("ErrorGettingContextsInfo") = {} =>
        /\ result # "RESULT_OK"
        /\ registry = registry0
        /\ IF HasStar(SetPattern)
           THEN ErrLines("NoContextsMatched") # {} /\ ErrLines("ContextNotFound") = {}
           ELSE ErrLines("ContextNotFound") # {} /\ ErrLines("NoContextsMatched") = {}

\* C4 amended: a set whose pattern matches no context fails and calls
\* PmLogSetContextLevel on nothing; a pattern without '*' is reported as
\* "context not found" (a parameter error); a pattern with '*' is reported
\* as "no contexts matched" (a runtime error) when the level argument is
\* valid, no further argument follows and the listing succeeded, and
\* otherwise the command fails with the error of that earlier check;
\* "context not found" is never reported for a pattern with '*' nor "no
\* contexts matched" for one without.
C4_ZeroMatchesFailByKind ==
    /\ pc = "done" /\ argc >= 2 /\ Targets(SetPattern) = {} =>
          /\ result # "RESULT_OK"
          /\ registry = registry0 /\ setv.setCalls = <<>>
          /\ ~HasStar(SetPattern) =>
                /\ err = << [t |-> "ContextNotFound", name |-> SetPattern] >>
                /\ result = "RESULT_PARAM_ERR"
          /\ HasStar(SetPattern) /\ argc = 3 /\ PmLogStringToLevel(Arg(2)) # NULLP
                /\ snapshot.calls # <<>> /\ snapshot.logErr = kPmLogErr_None =>
                /\ err = << [t |-> "NoContextsMatched", name |-> SetPattern] >>
                /\ result = "RESULT_RUN_ERR"
    /\ argc >= 2 =>
          /\ HasStar(SetPattern) => ErrLines("ContextNotFound") = {}
          /\ ~HasStar(SetPattern) => ErrLines("NoContextsMatched") = {}

\* a wildcard that matched none of several contexts was reported as such
C4_Witness ==
    /\ pc = "done" /\ result = "RESULT_RUN_ERR"
    /\ Len(registry0) >= 2
    /\ HasStar(SetPattern) /\ Len(SetPattern) >= 2 /\ Targets(SetPattern) = {}
    /\ ErrLines("NoContextsMatched") # {}

\* an exact name that no context has was reported as not found
C4_WitnessExact ==
    /\ pc = "done" /\ result = "RESULT_PARAM_ERR"
    /\ Len(registry0) >= 2 /\ argc = 3
    /\ ErrLines("ContextNotFound") # {}

-----------------------------------------------------------------------------
(* logkv <context> <level> <msgID> <key>=<value> ... <message> *)

KvPairSize == 1024          \* sizeof(kvPair)
kPmLogLevel_Debug == 7

\* The value of a size_t expression that went below zero: it wraps to the
\* top of size_t's range, beyond the length of any string.
WrappedSize == 2147483647

SizeT(n) == IF n >= 0 THEN n ELSE WrappedSize

Min(S) == CHOOSE x \in S : \A y \in S : x <= y

\* Memory from kvPair[0] on: kvPair is bytes 0..KvPairSize-1, what follows
\* is the stack behind it.  Bytes never written are 0 (the memset).
MemByteAt(mem, i) == IF i < Len(mem) THEN mem[i + 1] ELSE 0

\* strlen(kvPair)
CStrlen(mem) ==
    LET nuls == { i \in 1..Len(mem) : mem[i] = 0 }
    IN  IF nuls = {} THEN Len(mem) ELSE Min(nuls) - 1

\* The C string kvPair holds
CStr(mem) == SubSeq(mem, 1, CStrlen(mem))

\* bytes stored from offset off on
MemWrite(mem, off, bytes) ==
    LET end == off + Len(bytes)
        gap == IF off > Len(mem) THEN [i \in 1..(off - Len(mem)) |-> 0] ELSE <<>>
        head == IF off > Len(mem) THEN mem ELSE SubSeq(mem, 1, off)
    IN  IF off >= Len(mem) /\ \A i \in 1..Len(bytes) : bytes[i] = 0
        THEN mem
        ELSE head \o gap \o bytes \o SubSeq(mem, end + 1, Len(mem))

\* The highest offset a write of bytes at off touches, -1 for no byte
LastWritten(off, bytes) == IF Len(bytes) = 0 THEN -1 ELSE off + Len(bytes) - 1

\* What snprintf(kvPair + off, size, "%s", content) stores:
\* nothing for size 0, else at most size - 1 bytes and a NUL
SnprintfBytes(size, content) ==
    IF size = 0 THEN <<>>
    ELSE LET w == IF Len(content) < size - 1 THEN Len(content) ELSE size - 1
         IN  SubSeq(content, 1, w) \o <<0>>

\* What strncat(kvPair, c, 1) stores, at offset strlen(kvPair): c and a NUL
StrncatBytes(c) == <<c, 0>>

\* sscanf(arg, "%m[^=]=%m[^\t\n]", &key, &value): the number of conversions
\* and the two strings.  %[ needs at least one byte; the '=' must follow the
\* key; the value ends before the first tab or newline.
Sscanf_ValueToEnd(arg) ==
    LET eqs == { i \in 1..Len(arg) : arg[i] = CH_EQ }
        keyLen == IF eqs = {} THEN Len(arg) ELSE Min(eqs) - 1
        rest == SubSeq(arg, keyLen + 2, Len(arg))
    IN  IF keyLen = 0 THEN [n |-> 0, key |-> <<>>, value |-> <<>>]
        ELSE IF eqs = {} \/ Len(rest) = 0
        THEN [n |-> 1, key |-> SubSeq(arg, 1, keyLen), value |-> <<>>]
        ELSE [n |-> 2, key |-> SubSeq(arg, 1, keyLen), value |-> rest]

Sscanf(arg) ==
    LET eqs == { i \in 1..Len(arg) : arg[i] = CH_EQ }
        keyLen == IF eqs = {} THEN Len(arg) ELSE Min(eqs) - 1
        rest == SubSeq(arg, keyLen + 2, Len(arg))
        stops == { i \in 1..Len(rest) : rest[i] = CH_TAB \/ rest[i] = CH_NL }
        valueLen == IF stops = {} THEN Len(rest) ELSE Min(stops) - 1
    IN  IF keyLen = 0 THEN [n |-> 0, key |-> <<>>, value |-> <<>>]
        ELSE IF eqs = {} \/ valueLen = 0
        THEN [n |-> 1, key |-> SubSeq(arg, 1, keyLen), value |-> <<>>]
        ELSE [n |-> 2, key |-> SubSeq(arg, 1, keyLen), value |-> SubSeq(rest, 1, valueLen)]

\* "\"%s\":%s" of key and value
FormatPair(key, value) == <<CH_QUOTE>> \o key \o <<CH_QUOTE, CH_COLON>> \o value

\* DoCmdLogKV's locals on entry.  maxWrite is the highest offset of kvPair
\* written so far, wrong the tokens reported as wrong, emitted the
\* arguments of the PmLogString call.
KvLocals ==
    [paramIndex |-> 1, context |-> 0, levelIntP |-> NULLP, msgID |-> NULL, msg |-> NULL,
     kvPair |-> <<>>, isCheckedKV |-> FALSE, index |-> 0, result |-> FALSE,
     maxWrite |-> -1, wrong |-> <<>>, emitted |-> <<>>]

KvReturn(res, line) ==
    /\ pc' = "done"
    /\ result' = res
    /\ err' = ErrPrint(err, line)

\* The argument loop up to the first argument behind the message ID,
\* PmLogCtl.c:701-742 (and 827-836 for the debug level)
DoCmdLogKV_Args ==
    /\ pc = "logkv"
    /\ UNCHANGED <<registry, registry0, strv, extLog, stale, flag_silence, argv, out, snapshot,
                   mName, mPattern, mResult, setv>>
    /\ IF argc < 4
       THEN KvReturn("RESULT_PARAM_ERR", [t |-> "Minimum4Parameters"]) /\ kv' = kv
       ELSE
       LET context == PmLogFindContext(PrvResolveContextNameAlias(Arg(1)))
           levelIntP == PmLogStringToLevel(Arg(2))
       IN  IF context = 0
           THEN KvReturn("RESULT_PARAM_ERR", [t |-> "InvalidContext", arg |-> Arg(1)])
                /\ kv' = [kv EXCEPT !.paramIndex = 1]
           ELSE IF levelIntP = NULLP \/ levelIntP[1] = -1
           THEN KvReturn("RESULT_PARAM_ERR", [t |-> "InvalidLevel", arg |-> Arg(2)])
                /\ kv' = [kv EXCEPT !.paramIndex = 2, !.context = context]
           ELSE IF levelIntP[1] = kPmLogLevel_Debug
           THEN IF argc > 4
                THEN KvReturn("RESULT_PARAM_ERR", [t |-> "InvalidParameter", arg |-> Arg(4)])
                     /\ kv' = [kv EXCEPT !.paramIndex = 4, !.context = context,
                                         !.levelIntP = levelIntP, !.msg = Arg(3)]
                ELSE /\ pc' = "kv_emit"
                     /\ kv' = [kv EXCEPT !.paramIndex = 4, !.context = context,
                                         !.levelIntP = levelIntP, !.msg = Arg(3)]
                     /\ UNCHANGED <<result, err>>
           ELSE /\ pc' = IF argc > 4 THEN "kv_loop" ELSE "kv_emit"
                /\ kv' = [kv EXCEPT !.paramIndex = 4, !.context = context,
                                    !.levelIntP = levelIntP, !.msgID = Arg(3),
                                    !.isCheckedKV = (argc > 4)]
                /\ UNCHANGED <<result, err>>

\* A write of bytes at offset off of kvPair
KvWrite(k, off, bytes) ==
    [k EXCEPT !.kvPair = MemWrite(@, off, bytes),
              !.maxWrite = IF LastWritten(off, bytes) > @ THEN LastWritten(off, bytes) ELSE @]

KvStrncat(k, c) == KvWrite(k, CStrlen(k.kvPair), StrncatBytes(c))

\* PmLogCtl.c:771-775
KvOpenBrace(k) ==
    IF k.index = 0 THEN [KvStrncat(k, CH_LBRACE) EXCEPT !.index = @ + 1] ELSE k

KvPairOf_IndexShort(k, arg, last) ==
    LET sc == Sscanf(arg)
    IN  IF 2 > sc.n
        THEN [k EXCEPT !.wrong = Append(@, arg)]
        ELSE
        LET k1 == KvWrite(k, k.index,
                          SnprintfBytes(SizeT(KvPairSize - k.index - 1),
                                        FormatPair(sc.key, sc.value)))
            kvLength == Len(sc.key) + 2 + 1 + Len(sc.value)
        IN  IF last
            THEN [KvStrncat(k1, CH_RBRACE) EXCEPT !.result = TRUE]
            ELSE [KvStrncat(k1, CH_COMMA) EXCEPT !.result = TRUE,
                                                 !.index = @ + kvLength]

\* PmLogCtl.c:777-804: the token is scanned and, when both conversions
\* succeed, formatted at kvPair + index and followed by '}' or ','
KvPairOf(k, arg, last) ==
    LET sc == Sscanf(arg)
    IN  IF 2 > sc.n
        THEN [k EXCEPT !.wrong = Append(@, arg)]
        ELSE
        LET k1 == KvWrite(k, k.index,
                          SnprintfBytes(SizeT(KvPairSize - k.index - 1),
                                        FormatPair(sc.key, sc.value)))
            kvLength == Len(sc.key) + 2 + 1 + Len(sc.value)
        IN  IF last
            THEN [KvStrncat(k1, CH_RBRACE) EXCEPT !.result = TRUE]
            ELSE [KvStrncat(k1, CH_COMMA) EXCEPT !.result = TRUE,
                                                 !.index = @ + kvLength + 1]


\* One round of the loop over the key=value arguments, PmLogCtl.c:766-822.
\* A write behind kvPair's last byte has no defined outcome: the process is
\* killed, or it goes on with the bytes stored in the stack behind kvPair.
DoCmdLogKV_Token ==
    /\ pc = "kv_loop"
    /\ kv.paramIndex < argc - 1
    /\ UNCHANGED <<registry, registry0, strv, extLog, stale, flag_silence, argv, out, snapshot,
                   mName, mPattern, mResult, setv>>
    /\ LET arg == Arg(kv.paramIndex)
           k1 == KvPairOf(KvOpenBrace(kv), arg, kv.paramIndex = argc - 2)
           k2 == [k1 EXCEPT !.paramIndex = @ + 1]
           err1 == IF Len(k1.wrong) > Len(kv.wrong)
                   THEN ErrPrint(err, [t |-> "KeyValuePairWrong", arg |-> arg])
                   ELSE err
       IN  /\ kv' = k2
           /\ \/ /\ k2.maxWrite >= KvPairSize
                 /\ pc' = "done"
                 /\ result' = "killed"
                 /\ err' = err1
              \/ IF ~k2.result
                 THEN /\ pc' = "done"
                      /\ result' = "RESULT_PARAM_ERR"
                      /\ err' = err1
                 ELSE /\ pc' = "kv_loop"
                      /\ err' = err1
                      /\ UNCHANGED result

\* The last argument ends the loop, PmLogCtl.c:756-764 and 825; the outer
\* loop then takes it as the message, 827-831
DoCmdLogKV_Break ==
    /\ pc = "kv_loop"
    /\ kv.paramIndex = argc - 1
    /\ UNCHANGED <<registry, registry0, strv, extLog, stale, flag_silence, argv, out, snapshot,
                   mName, mPattern, mResult, setv, result, err>>
    /\ LET k1 == IF kv.paramIndex = 4
                 THEN KvWrite(kv, 0, SnprintfBytes(KvPairSize, <<CH_LBRACE, CH_RBRACE>>))
                 ELSE kv
           k2 == KvWrite(k1, KvPairSize - 1, <<0>>)
       IN  kv' = [k2 EXCEPT !.msg = Arg(kv.paramIndex), !.paramIndex = @ + 1]
    /\ pc' = "kv_emit"

\* The checks behind the loop and the PmLogString call, PmLogCtl.c:839-869
DoCmdLogKV_Emit(fail) ==
    /\ pc = "kv_emit"
    /\ UNCHANGED <<registry, registry0, strv, extLog, stale, flag_silence, argv, out, snapshot,
                   mName, mPattern, mResult, setv>>
    /\ kv' = [kv EXCEPT !.emitted =
                 << [context |-> kv.context, level |-> kv.levelIntP[1], msgID |-> kv.msgID,
                     kvPairs |-> IF kv.levelIntP[1] = kPmLogLevel_Debug
                                 THEN NULL ELSE CStr(kv.kvPair),
                     msg |-> kv.msg] >>]
    /\ pc' = "done"
    /\ IF fail.op = "log"
       THEN /\ result' = "RESULT_RUN_ERR"
            /\ err' = ErrPrint(err, [t |-> "ErrorLogging"])
       ELSE /\ result' = "RESULT_OK"
            /\ err' = err

LogFails == { NoFail, FailOf("log", 0) }

\* Arguments behind the message ID.  x stands for a digit or letter.
LongValueLens == { KvPairSize - d : d \in {13, 12, 9, 8, 7, 6} }
LongToken(n) == <<97, CH_EQ>> \o [i \in 1..n |-> 120]

TokenPool ==
    { <<97, CH_EQ, 98>>,                    \* a=b
      <<98, CH_EQ, 97>>,                    \* b=a
      <<97, CH_EQ, CH_EQ>>,                 \* a==
      <<97, 98, CH_EQ, 97, CH_EQ, 98>>,     \* ab=a=b
      <<97>>,                               \* a
      <<CH_EQ, 97>>,                        \* =a
      <<97, CH_EQ>>,                        \* a=
      <<>>,                                 \* the empty argument
      <<97, CH_EQ, CH_TAB>>,                \* a=<tab>
      <<97, CH_EQ, 98, CH_TAB, 97>>,        \* a=b<tab>a
      <<97, CH_EQ, 98, CH_NL>> }            \* a=b<newline>
        \cup { LongToken(n) : n \in LongValueLens }

MessagePool == { <<109>>, <<97, CH_EQ, 98>> }     \* m, a=b

MaxTokens == 2      \* most key=value arguments

MsgId == <<73, 68>>     \* ID

KvTails ==
    { <<>> } \cup
    UNION { { toks \o <<m>> : toks \in [1..k -> TokenPool], m \in MessagePool } :
            k \in 0..MaxTokens }

KvArgvs ==
    { <<CmdLogKV, <<97>>, "info", MsgId>> \o tail : tail \in KvTails }
        \cup { <<CmdLogKV, c, l, MsgId>> \o tail :
                 c \in { <<97>>, <<CH_DOT>> },
                 l \in { "debug", "none", "bogus" },
                 tail \in { <<>>, << <<109>> >> } }
        \cup { <<CmdLogKV>>, <<CmdLogKV, <<97>>, "info">> }

InitKV ==
    /\ registry = ScenarioRegistry
    /\ registry0 = registry
    /\ extLog = <<>> /\ strv = <<>>
    /\ stale = 0
    /\ flag_silence = FALSE
    /\ pc = "logkv"
    /\ argv \in KvArgvs
    /\ result = "none" /\ out = <<>> /\ err = <<>>
    /\ snapshot = EmptyContextsInfo
    /\ mName = <<>> /\ mPattern = NULL /\ mResult = FALSE
    /\ setv = <<>> /\ kv = KvLocals

NextKV ==
    \/ DoCmdLogKV_Args
    \/ DoCmdLogKV_Token
    \/ DoCmdLogKV_Break
    \/ \E fail \in LogFails : DoCmdLogKV_Emit(fail)

SpecKV == InitKV /\ [][NextKV]_vars

\* The key=value arguments of the command: those between the message ID
\* and the last argument, which is the message
KvTokens == IF argc >= 6 THEN SubSeq(argv, 5, argc - 1) ELSE <<>>

\* PmLogString was called, and the structured payload it was given
Emitted == kv.emitted # <<>>
Payload == kv.emitted[1].kvPairs

\* The command reached the key=value arguments: context and level are
\* valid and the level is not debug
KvRun ==
    /\ argc >= 4
    /\ kv.context # 0
    /\ kv.levelIntP # NULLP
    /\ kv.levelIntP[1] # kPmLogLevel_Debug /\ kv.levelIntP[1] # -1

\* A token read as the specification reads it: split at its first '='
HasEq(tok) == \E i \in 1..Len(tok) : tok[i] = CH_EQ
FirstEq(tok) == Min({ i \in 1..Len(tok) : tok[i] = CH_EQ })
RefKey(tok) == SubSeq(tok, 1, FirstEq(tok) - 1)
RefValue(tok) == SubSeq(tok, FirstEq(tok) + 1, Len(tok))
WellFormed(tok) == HasEq(tok) /\ RefKey(tok) # <<>> /\ RefValue(tok) # <<>>
NoTabOrNewline(str) == \A i \in 1..Len(str) : str[i] # CH_TAB /\ str[i] # CH_NL

\* The object the specification describes, 4.4
RECURSIVE RefEntries(_)
RefEntries(toks) ==
    IF toks = <<>> THEN <<>>
    ELSE <<CH_QUOTE>> \o RefKey(Head(toks)) \o <<CH_QUOTE, CH_COLON>> \o RefValue(Head(toks))
            \o (IF Len(toks) > 1 THEN <<CH_COMMA>> ELSE <<>>) \o RefEntries(Tail(toks))
RefEncode(toks) == <<CH_LBRACE>> \o RefEntries(toks) \o <<CH_RBRACE>>

AllWellFormed == \A i \in 1..Len(KvTokens) : WellFormed(KvTokens[i])
Fits == Len(RefEncode(KvTokens)) <= KvPairSize - 1

\* C5 as stated: for a non-empty list of tokens that all have a non-empty
\* key and a non-empty value and whose encoding fits kvPair, PmLogString is
\* given '{', the entries "<key>":<value> in token order separated by
\* commas, and '}'.
C5_Original ==
    pc = "done" /\ KvRun /\ KvTokens # <<>> /\ AllWellFormed /\ Fits =>
        Emitted /\ Payload = RefEncode(KvTokens)

\* C5 amended: the same, for tokens whose value holds no tab and no newline.
C5_PayloadIsObjectOfPairs ==
    pc = "done" /\ KvRun /\ KvTokens # <<>> /\ AllWellFormed /\ Fits
        /\ (\A i \in 1..Len(KvTokens) : NoTabOrNewline(RefValue(KvTokens[i]))) =>
        Emitted /\ Payload = RefEncode(KvTokens)

\* two pairs that fill kvPair to its last byte were emitted whole
C5_Witness ==
    /\ pc = "done" /\ KvRun /\ Len(KvTokens) = 2 /\ AllWellFormed
    /\ Emitted /\ Payload = RefEncode(KvTokens)
    /\ Len(Payload) = KvPairSize - 1

\* C6 as stated: when a token without '=' is in the list, the command ends
\* with a parameter error at that token: no later token is processed and
\* PmLogString is not called.
C6_Original ==
    pc = "done" /\ KvRun =>
        \A i \in 1..Len(KvTokens) :
            ~HasEq(KvTokens[i]) /\ (\A j \in 1..(i - 1) : HasEq(KvTokens[j])) =>
                /\ result = "RESULT_PARAM_ERR"
                /\ ~Emitted
                /\ kv.paramIndex <= 4 + i

\* C7 as stated: a command at a non-debug level with a message ID and no
\* key=value token, with or without a message, gives PmLogString the
\* payload {}.
C7_Original ==
    pc = "done" /\ KvRun /\ argc <= 5 /\ Emitted =>
        Payload = <<CH_LBRACE, CH_RBRACE>>

\* C8 as stated: no write of the encoder lands outside kvPair[0..1023], and
\* the payload given to PmLogString ends within the buffer.
C8_Original ==
    /\ kv # <<>> => kv.maxWrite <= KvPairSize - 1
    /\ kv # <<>> /\ Emitted /\ Payload # NULL => Len(Payload) <= KvPairSize - 1

-----------------------------------------------------------------------------
(* The scan of one key=value argument, PmLogCtl.c:777 *)

MaxTokLen == 4      \* longest argument scanned
TokAlphabet == {97, CH_EQ, CH_TAB, CH_NL}

InitScan ==
    /\ registry = <<>> /\ registry0 = <<>> /\ extLog = <<>> /\ strv = <<>> /\ stale = 0 /\ flag_silence = FALSE
    /\ result = "none" /\ out = <<>> /\ err = <<>>
    /\ snapshot = EmptyContextsInfo
    /\ mName = <<>> /\ mPattern = NULL /\ mResult = FALSE
    /\ setv = <<>>
    /\ pc = "scan"
    /\ argv \in { <<tok>> : tok \in StrsUpTo(TokAlphabet, MaxTokLen) }
    /\ kv = [n |-> 0, key |-> <<>>, value |-> <<>>]

ScanCall ==
    /\ pc = "scan"
    /\ kv' = Sscanf(argv[1])
    /\ pc' = "done"
    /\ UNCHANGED <<registry, registry0, strv, extLog, stale, flag_silence, argv, result, out, err,
                   snapshot, mName, mPattern, mResult, setv>>

NextScan == ScanCall

SpecScan == InitScan /\ [][NextScan]_vars

\* The longest prefix of str without tab and newline
UpToTabOrNewline(str) ==
    SubSeq(str, 1, CHOOSE k \in 0..Len(str) :
                      /\ NoTabOrNewline(SubSeq(str, 1, k))
                      /\ k < Len(str) => ~NoTabOrNewline(SubSeq(str, 1, k + 1)))

\* C9 as stated: a token with a '=' is accepted, its key being what precedes
\* the first '=' and its value all that follows it; only a token without
\* '=' is a parse error.
C9_Original ==
    pc = "done" =>
        IF HasEq(argv[1])
        THEN kv.n = 2 /\ kv.key = RefKey(argv[1]) /\ kv.value = RefValue(argv[1])
        ELSE kv.n < 2

\* C9 amended: a token is accepted exactly when its first '=' has at least
\* one byte before it and is followed by a byte that is neither tab nor
\* newline; the key is then what precedes the first '=' and the value what
\* follows it up to the first tab or newline, further '=' included.  A token
\* without '=', with nothing before its first '=', or with nothing, a tab or
\* a newline right behind it is a parse error.
C9_SplitAtFirstEq ==
    pc = "done" =>
        LET tok == argv[1]
            accepted == /\ HasEq(tok)
                        /\ RefKey(tok) # <<>>
                        /\ RefValue(tok) # <<>>
                        /\ RefValue(tok)[1] # CH_TAB /\ RefValue(tok)[1] # CH_NL
        IN  /\ (kv.n = 2) = accepted
            /\ accepted => /\ kv.key = RefKey(tok)
                           /\ kv.value = UpToTabOrNewline(RefValue(tok))

\* a value that holds a second '=' and ends at a tab
C9_Witness ==
    /\ pc = "done" /\ kv.n = 2
    /\ HasEq(kv.value)
    /\ Len(kv.value) < Len(RefValue(argv[1]))

-----------------------------------------------------------------------------
(* show and set when the library fails during the listing *)

ListErrArgvs ==
    { <<CmdShow>>, <<CmdShow, <<97, CH_STAR>> >>, <<CmdShow, <<97>> >>,
      <<CmdShow, <<97>>, <<97>> >>,
      <<CmdSet, <<97, CH_STAR>>, "info">>, <<CmdSet, <<CH_STAR>>, "none">>,
      <<CmdSet, <<66, CH_STAR>>, "info">>, <<CmdSet, <<97>>, "info">> }

InitListErr ==
    /\ registry \in Registries({5})
    /\ registry0 = registry
    /\ extLog = <<>> /\ strv = <<>>
    /\ stale = 0
    /\ flag_silence = FALSE
    /\ argv \in ListErrArgvs
    /\ pc = IF argv[1] = CmdSet THEN "set" ELSE "show"
    /\ result = "none" /\ out = <<>> /\ err = <<>>
    /\ snapshot = EmptyContextsInfo
    /\ mName = <<>> /\ mPattern = NULL /\ mResult = FALSE
    /\ setv = IF argv[1] = CmdSet THEN SetLocals ELSE <<>>
    /\ kv = <<>>

NextListErr ==
    \/ NextList
    \/ NextSet

SpecListErr == InitListErr /\ [][NextListErr]_vars

\* The step of show or set that calls PrvGetContextList
ListStep(fail) == DoCmdShow(fail) \/ DoCmdSet_List(fail)

\* The library call op on index i is among the calls
CallMade(calls, op, i) == \E k \in 1..Len(calls) : calls[k] = <<op, i>>

\* C11: PrvGetContextList returns an error when the count query fails or
\* reports no context, and when the fetch of the handle or of the name of
\* entry i fails it returns that entry's error with that fetch as its last
\* library call, no index above i being fetched; the show or set command
\* that made the listing then ends with a failure, having printed nothing
\* to the output and written no context level.
C11_NoPartialSuccess ==
    [][ \A fail \in ListFails :
          ListStep(fail) /\ snapshot'.calls # <<>> =>
            LET s == snapshot'
                failed == fail # NoFail /\ CallMade(s.calls, fail.op, fail.at)
                empty == fail.op # "count" /\ Len(registry) <= 0
            IN  failed \/ empty =>
                  /\ s.logErr # kPmLogErr_None
                  /\ failed => /\ s.calls[Len(s.calls)] = <<fail.op, fail.at>>
                               /\ \A k \in 1..Len(s.calls) : s.calls[k][2] <= fail.at
                               /\ s.logErr = CASE fail.op = "count" -> "kPmLogErr_InvalidParameter"
                                               [] fail.op = "ind" -> "kPmLogErr_InvalidContextIndex"
                                               [] fail.op = "name" -> "kPmLogErr_InvalidContext"
                  /\ empty => s.calls = << <<"count", 0>> >> /\ s.logErr = kPmLogErr_Unknown
                  /\ pc' = "done" /\ result' = "RESULT_RUN_ERR"
                  /\ out' = out /\ out = <<>>
                  /\ registry' = registry /\ registry = registry0
                  /\ setv' # <<>> => setv'.setCalls = <<>>
      ]_vars

\* a wildcard set whose listing had kept a context when the name of a later
\* entry, not the last, could not be fetched
C11_Witness ==
    /\ pc = "done" /\ setv # <<>>
    /\ snapshot.logErr = "kPmLogErr_InvalidContext"
    /\ snapshot.numContexts >= 1
    /\ Len(snapshot.calls) < 1 + 2 * Len(registry)
    /\ result = "RESULT_RUN_ERR" /\ out = <<>> /\ registry = registry0

-----------------------------------------------------------------------------
(* The loop of a wildcard set *)

\* The wildcard branch of set is in or behind its loop over the snapshot
InSetLoop ==
    /\ setv # <<>> /\ pc \in {"set_apply", "done"}
    /\ setv.matchedContext = 0
    /\ setv.contextInfos.calls # <<>>
    /\ setv.contextInfos.logErr = kPmLogErr_None
    /\ setv.contextInfos.numContexts > 0

SetFailed == ErrLines("ErrorSettingContextLogLevel") # {}

\* C12: a wildcard set calls PmLogSetContextLevel on the snapshot entries
\* one after the other in snapshot order, which is ascending by
\* case-insensitive name; at every moment the entries already passed have
\* the new level and the entries not yet reached their old one.  When the
\* call fails on the j-th entry the command ends there with
\* RESULT_RUN_ERR: the entries before j have the new level and the entries
\* behind j are never reached.
C12_AppliesInOrderUntilFailure ==
    InSetLoop =>
        LET ci == setv.contextInfos
            n == Len(setv.setCalls)
            passed == IF SetFailed THEN n - 1 ELSE n
        IN  /\ n <= ci.numContexts
            /\ \A k \in 1..n : setv.setCalls[k] = ci.contextInfos[k - 1].context
            /\ \A k \in 1..(n - 1) :
                  Strcasecmp(registry0[setv.setCalls[k]].name,
                             registry0[setv.setCalls[k + 1]].name) <= 0
            /\ \A k \in 0..(ci.numContexts - 1) :
                  LET h == ci.contextInfos[k].context
                  IN  /\ k < passed => registry[h].level = setv.levelIntP[1]
                      /\ k >= n => registry[h].level = registry0[h].level
            /\ SetFailed => pc = "done" /\ result = "RESULT_RUN_ERR"
            /\ pc = "done" /\ ~SetFailed => n = ci.numContexts /\ result = "RESULT_OK"
            /\ pc = "set_apply" => n < ci.numContexts /\ setv.i = n

\* the call failed on the second of three entries
C12_Witness ==
    /\ InSetLoop /\ SetFailed /\ pc = "done"
    /\ setv.contextInfos.numContexts = 3
    /\ Len(setv.setCalls) = 2
    /\ registry[setv.setCalls[1]].level # registry0[setv.setCalls[1]].level
    /\ registry[setv.setCalls[2]].level = registry0[setv.setCalls[2]].level

-----------------------------------------------------------------------------
(* def <context> [<level>] *)

CmdDef == <<100, 101, 102>>

\* The levels PmLogGetContext may give a context it creates
DefaultLevels == {5, 6}

\* PmLogGetContext for a name that PmLogFindContext did not find: the
\* registries with the new context behind the others
PmLogGetContext(reg, contextName) ==
    { Append(reg, [name |-> contextName, level |-> l]) : l \in DefaultLevels }

DefFails == { NoFail, FailOf("get", 0), FailOf("set", 0) }

DoCmdDef_DefinesBeforeLevelCheck(fail) ==
    /\ pc = "def"
    /\ UNCHANGED <<registry0, strv, extLog, stale, flag_silence, argv, out, snapshot,
                   mName, mPattern, mResult, setv, kv>>
    /\ IF argc < 2
       THEN /\ SetReturn("RESULT_PARAM_ERR", [t |-> "ContextNotSpecified"])
            /\ UNCHANGED registry
       ELSE \E reg \in PmLogGetContext(registry, PrvResolveContextNameAlias(Arg(1))) :
              /\ registry' = reg
              /\ IF argc >= 3 /\ PmLogStringToLevel(Arg(2)) = NULLP
                 THEN SetReturn("RESULT_PARAM_ERR", [t |-> "InvalidLevel", arg |-> Arg(2)])
                 ELSE pc' = "done" /\ result' = "RESULT_OK" /\ err' = err

\* DoCmdDef, PmLogCtl.c:1091-1175
DoCmdDef(fail) ==
    /\ pc = "def"
    /\ UNCHANGED <<registry0, strv, extLog, stale, flag_silence, argv, out, snapshot,
                   mName, mPattern, mResult, setv, kv>>
    /\ LET contextName == IF argc >= 2 THEN PrvResolveContextNameAlias(Arg(1)) ELSE NULL
           levelIntP == IF argc >= 3 THEN PmLogStringToLevel(Arg(2)) ELSE NULLP
       IN  IF argc >= 2 /\ PmLogFindContext(contextName) # 0
           THEN /\ SetReturn("RESULT_OK", [t |-> "ContextAlreadyDefined", name |-> contextName])
                /\ UNCHANGED registry
           ELSE IF argc >= 3 /\ levelIntP = NULLP
           THEN /\ SetReturn("RESULT_PARAM_ERR", [t |-> "InvalidLevel", arg |-> Arg(2)])
                /\ UNCHANGED registry
           ELSE IF argc >= 4
           THEN /\ SetReturn("RESULT_PARAM_ERR", [t |-> "InvalidParameter", arg |-> Arg(3)])
                /\ UNCHANGED registry
           ELSE IF contextName = NULL
           THEN /\ SetReturn("RESULT_PARAM_ERR", [t |-> "ContextNotSpecified"])
                /\ UNCHANGED registry
           ELSE IF fail.op = "get"
           THEN /\ SetReturn("RESULT_RUN_ERR", [t |-> "ErrorDefiningContext"])
                /\ UNCHANGED registry
           ELSE \E reg \in PmLogGetContext(registry, contextName) :
                  IF levelIntP = NULLP
                  THEN /\ registry' = reg
                       /\ pc' = "done" /\ result' = "RESULT_OK" /\ err' = err
                  ELSE IF fail.op = "set"
                  THEN /\ registry' = reg
                       /\ SetReturn("RESULT_RUN_ERR", [t |-> "ErrorSettingContextLogLevel"])
                  ELSE /\ registry' = PmLogSetContextLevel(reg, Len(reg), levelIntP[1])
                       /\ pc' = "done" /\ result' = "RESULT_OK" /\ err' = err

-----------------------------------------------------------------------------
(* main *)

CmdHelp == <<104, 101, 108, 112>>
CmdMinusHelp == <<45>> \o CmdHelp
OptSilence == <<45, 115>>

\* strncmp(cmd, "-s", 2) == 0
IsOptSilence(cmd) == Len(cmd) >= 2 /\ SubSeq(cmd, 1, 2) = OptSilence

\* The usage text, PmLogCtl.c:1185-1212, as one line
ShowUsage(silence, stream) == IF silence THEN stream ELSE Append(stream, [t |-> "Usage"])

\* ErrPrint under a given value of flag_silence
ErrPrintWhen(silence, stream, line) == IF silence THEN stream ELSE Append(stream, line)

\* main up to the call of the command, PmLogCtl.c:1223-1311.  argv becomes
\* the vector the command is handed (cmd_index).
Main ==
    /\ pc = "main"
    /\ UNCHANGED <<registry, registry0, strv, extLog, stale, snapshot, mName, mPattern, mResult>>
    /\ IF Len(argv) < 2
       THEN /\ err' = ErrPrint(err, [t |-> "NoCommandSpecified"])
            /\ result' = "RESULT_PARAM_ERR" /\ pc' = "done"
            /\ UNCHANGED <<flag_silence, argv, out, setv, kv>>
       ELSE
       LET silence == IsOptSilence(argv[2])
       IN  /\ flag_silence' = (flag_silence \/ silence)
           /\ IF silence /\ Len(argv) < 3
              THEN /\ err' = ErrPrintWhen(flag_silence', err, [t |-> "NoCommandSpecified"])
                   /\ result' = "RESULT_PARAM_ERR" /\ pc' = "done"
                   /\ UNCHANGED <<argv, out, setv, kv>>
              ELSE
              LET cmd_index == IF silence THEN SubSeq(argv, 3, Len(argv))
                                          ELSE SubSeq(argv, 2, Len(argv))
                  cmd == cmd_index[1]
              IN  /\ argv' = cmd_index
                  /\ CASE cmd = CmdDef ->
                            pc' = "def" /\ UNCHANGED <<result, out, err, setv, kv>>
                       [] cmd = CmdLogKV ->
                            pc' = "logkv" /\ kv' = KvLocals /\ UNCHANGED <<result, out, err, setv>>
                       [] cmd = CmdSet ->
                            pc' = "set" /\ setv' = SetLocals /\ UNCHANGED <<result, out, err, kv>>
                       [] cmd = CmdShow ->
                            pc' = "show" /\ UNCHANGED <<result, out, err, setv, kv>>
                       [] cmd = CmdHelp \/ cmd = CmdMinusHelp ->
                            /\ out' = ShowUsage(flag_silence', out)
                            /\ result' = "RESULT_HELP" /\ pc' = "done"
                            /\ UNCHANGED <<err, setv, kv>>
                       [] OTHER ->
                            /\ err' = ErrPrintWhen(flag_silence', err,
                                                   [t |-> "InvalidCommand", cmd |-> cmd])
                            /\ result' = "RESULT_PARAM_ERR" /\ pc' = "done"
                            /\ UNCHANGED <<out, setv, kv>>

\* SuggestHelp, PmLogCtl.c:120-123
SuggestHelp(stream) == ErrPrint(stream, [t |-> "UseHelp"])

\* The end of main, PmLogCtl.c:1314-1319
Exit ==
    /\ pc = "done"
    /\ pc' = "exited"
    /\ err' = IF result = "RESULT_PARAM_ERR" THEN SuggestHelp(err) ELSE err
    /\ UNCHANGED <<registry, registry0, strv, extLog, stale, flag_silence, argv, result, out,
                   snapshot, mName, mPattern, mResult, setv, kv>>

\* The status main hands to exit()
ExitStatus == IF result = "RESULT_OK" THEN "EXIT_SUCCESS" ELSE "EXIT_FAILURE"

\* Command lines: the program's name, -s or not, and a command with its
\* arguments
ProgName == <<112>>

MainTails ==
    { <<>>, <<CmdHelp>>, <<CmdMinusHelp>>, <<<<98>>>> }
        \cup { <<CmdDef>> }
        \cup { <<CmdDef, n>> : n \in { <<97>>, <<65>>, <<CH_DOT>> } }
        \cup { <<CmdDef, n, l>> : n \in { <<97>>, <<65>>, <<CH_DOT>> }, l \in LevelArgs }
        \cup { <<CmdDef, n, "info", "info">> : n \in { <<97>>, <<65>> } }
        \cup { <<CmdSet>>, <<CmdSet, <<97>> >>, <<CmdSet, <<97, CH_STAR>>, "info", "info">> }
        \cup { <<CmdSet, c, l>> : c \in { <<97>>, <<65>>, <<97, CH_STAR>>, <<65, CH_STAR>> },
                                  l \in LevelArgs }
        \cup { <<CmdShow>>, <<CmdShow, <<97, CH_STAR>> >>, <<CmdShow, <<65>> >>,
               <<CmdShow, <<97>>, <<97>> >> }
        \cup { <<CmdLogKV>>, <<CmdLogKV, <<97>>, "info", MsgId>>,
               <<CmdLogKV, <<97>>, "info", MsgId, <<97, CH_EQ, 98>>, <<109>> >>,
               <<CmdLogKV, <<97>>, "info", MsgId, <<97>>, <<109>> >>,
               <<CmdLogKV, <<97>>, "bogus", MsgId, <<109>> >> }

MainArgvs ==
    { <<ProgName>> \o opt \o tail : opt \in { <<>>, <<OptSilence>> }, tail \in MainTails }

InitMain ==
    /\ registry \in { <<>>, ScenarioRegistry }
    /\ registry0 = registry
    /\ extLog = <<>> /\ strv = <<>>
    /\ stale = 0
    /\ flag_silence = FALSE
    /\ pc = "main"
    /\ argv \in MainArgvs
    /\ result = "none" /\ out = <<>> /\ err = <<>>
    /\ snapshot = EmptyContextsInfo
    /\ mName = <<>> /\ mPattern = NULL /\ mResult = FALSE
    /\ setv = <<>> /\ kv = <<>>

NextMain ==
    \/ Main
    \/ \E fail \in DefFails : DoCmdDef(fail)
    \/ NextSet
    \/ NextList
    \/ NextKV
    \/ Exit

SpecMain == InitMain /\ [][NextMain]_vars

\* The command that ran to its end was cmd
Ran(cmd) == pc = "exited" /\ Len(argv) >= 1 /\ argv[1] = cmd

\* The context of that name was registered when the command started
Registered(name) == \E h \in 1..Len(registry0) : registry0[h].name = name

\* C13 as stated: def of a name that the registry already holds (after
\* alias rewriting), with or without a level argument, ends with a result
\* other than RESULT_OK and the process with a non-success exit status.
C13_Original ==
    Ran(CmdDef) /\ Len(argv) >= 2 /\ Registered(PrvResolveContextNameAlias(argv[2])) =>
        result # "RESULT_OK" /\ ExitStatus = "EXIT_FAILURE"


\* C14 as stated: with -s nothing is written to the output, and a command
\* that ends with a parameter error or a runtime error (a missing command
\* behind -s included) has still written its error message.
C14_Original ==
    pc = "exited" /\ flag_silence =>
        /\ out = <<>>
        /\ result \in {"RESULT_PARAM_ERR", "RESULT_RUN_ERR"} => err # <<>>

\* C18: a set or def command that ends with RESULT_PARAM_ERR has called
\* neither PmLogSetContextLevel nor PmLogGetContext: the registry holds
\* the contexts and the levels it held when the command started.
C18_ParamErrorLeavesRegistry ==
    pc \in {"done", "exited"} /\ argv[1] \in {CmdSet, CmdDef}
        /\ result = "RESULT_PARAM_ERR" =>
        /\ registry = registry0
        /\ setv # <<>> => setv.setCalls = <<>>

\* def of a new context with a level that is none
C18_Witness ==
    /\ Ran(CmdDef) /\ Len(argv) = 3
    /\ ~Registered(PrvResolveContextNameAlias(argv[2]))
    /\ result = "RESULT_PARAM_ERR"
    /\ \E k \in 1..Len(err) : err[k].t = "InvalidLevel"
    /\ registry = registry0


-----------------------------------------------------------------------------
(* The order of entries whose names differ in case only *)

\* C15 as stated: the sort is stable, so snapshot entries whose names are
\* equal under strcasecmp stand in the order in which the registry
\* enumerates them, and a registry state has one ordered snapshot only.
C15_Original ==
    pc = "done" /\ ListSucceeded =>
        \A i, j \in 0..(snapshot.numContexts - 1) :
            /\ i < j
            /\ Strcasecmp(snapshot.contextInfos[i].contextName,
                          snapshot.contextInfos[j].contextName) = 0
            => snapshot.contextInfos[i].context < snapshot.contextInfos[j].context


-----------------------------------------------------------------------------
(* set while another process changes the registry *)

MaxExternal == 2        \* most changes the other process makes
ExternalLevels == {1}

SetRunning == pc \in {"set", "set_list", "set_apply", "set_direct"}

\* What the log notes of a change: the context, its level, whether the
\* listing was done and how many PmLogSetContextLevel calls were made
ExtEntry(op, h, level) ==
    [op |-> op, context |-> h, level |-> level,
     listed |-> pc \in {"set_apply", "set_direct"},
     written |-> Len(setv.setCalls)]

\* Another process registers a context
ExternalDefine ==
    /\ SetRunning /\ Len(extLog) < MaxExternal
    /\ \E name \in NamePool, level \in ExternalLevels :
          /\ \A h \in 1..Len(registry) : registry[h].name # name
          /\ registry' = Append(registry, [name |-> name, level |-> level])
          /\ extLog' = Append(extLog, ExtEntry("def", Len(registry) + 1, level))
    /\ UNCHANGED <<registry0, strv, stale, flag_silence, pc, argv, result, out, err,
                   snapshot, mName, mPattern, mResult, setv, kv>>

\* Another process sets the level of a context
ExternalSetLevel ==
    /\ SetRunning /\ Len(extLog) < MaxExternal
    /\ \E h \in 1..Len(registry), level \in ExternalLevels :
          /\ registry' = PmLogSetContextLevel(registry, h, level)
          /\ extLog' = Append(extLog, ExtEntry("level", h, level))
    /\ UNCHANGED <<registry0, strv, stale, flag_silence, pc, argv, result, out, err,
                   snapshot, mName, mPattern, mResult, setv, kv>>

RaceArgvs ==
    { <<CmdSet, <<97, CH_STAR>>, "info">>, <<CmdSet, <<CH_STAR>>, "none">>,
      <<CmdSet, <<66, CH_STAR>>, "info">>, <<CmdSet, <<97>>, "info">> }

InitRace ==
    /\ registry \in { ScenarioRegistry, SubSeq(ScenarioRegistry, 1, 2) }
    /\ registry0 = registry
    /\ extLog = <<>> /\ strv = <<>>
    /\ stale = 0
    /\ flag_silence = FALSE
    /\ pc = "set"
    /\ argv \in RaceArgvs
    /\ result = "none" /\ out = <<>> /\ err = <<>>
    /\ snapshot = EmptyContextsInfo
    /\ mName = <<>> /\ mPattern = NULL /\ mResult = FALSE
    /\ setv = SetLocals /\ kv = <<>>

NextRace ==
    \/ NextSet
    \/ ExternalDefine
    \/ ExternalSetLevel

SpecRace == InitRace /\ [][NextRace]_vars

\* The changes the other process made to context h
ExtOn(h) == { k \in 1..Len(extLog) : extLog[k].context = h }

\* The level context h has but for the set command
OwnLevel(h) ==
    IF ExtOn(h) # {}
    THEN extLog[CHOOSE k \in ExtOn(h) : \A m \in ExtOn(h) : m <= k].level
    ELSE registry0[h].level

\* The positions of the snapshot that hold context h
SlotsOf(h) ==
    { k \in 0..(setv.contextInfos.numContexts - 1) :
        setv.contextInfos.contextInfos[k].context = h }

\* C16: a wildcard set does not notice what another process does to the
\* registry after the listing.  It calls PmLogSetContextLevel on the
\* snapshot entries, in snapshot order, and on nothing else: a context has
\* the new level exactly when it is a snapshot entry the loop has passed
\* and the other process has not written it since; every other context,
\* one that matches the pattern but was registered after the listing
\* included, has the level it would have without the command.  Unless a
\* PmLogSetContextLevel call fails the command returns RESULT_OK.
C16_StaleSnapshotIsApplied ==
    InSetLoop =>
        LET ci == setv.contextInfos
            n == Len(setv.setCalls)
            passed == IF SetFailed THEN n - 1 ELSE n
            ours(h) == \E k \in SlotsOf(h) :
                          /\ k < passed
                          /\ \A m \in ExtOn(h) : extLog[m].written <= k
        IN  /\ n <= ci.numContexts
            /\ \A k \in 1..n : setv.setCalls[k] = ci.contextInfos[k - 1].context
            /\ \A h \in 1..Len(registry) :
                  registry[h].level = IF ours(h) THEN setv.levelIntP[1] ELSE OwnLevel(h)
            /\ pc = "done" /\ ~SetFailed => result = "RESULT_OK" /\ n = ci.numContexts

\* The command returned RESULT_OK although, between its listing and its
\* first PmLogSetContextLevel call, the other process registered a context
\* that matches the pattern and set the level of a snapshot entry: the new
\* context has the other process's level, the snapshot entry the
\* command's.  Running the command before the other process's changes
\* would leave the snapshot entry with the other level, running it behind
\* them would give the new context the command's level.
C16_Witness ==
    /\ InSetLoop /\ pc = "done" /\ result = "RESULT_OK"
    /\ \E d, l \in 1..Len(extLog) :
          /\ extLog[d].op = "def" /\ extLog[d].listed /\ extLog[d].written = 0
          /\ extLog[l].op = "level" /\ extLog[l].listed /\ extLog[l].written = 0
          /\ RefMatches(registry[extLog[d].context].name, setv.matchContextName)
          /\ registry[extLog[d].context].level = extLog[d].level
          /\ extLog[d].level # setv.levelIntP[1]
          /\ SlotsOf(extLog[l].context) # {}
          /\ registry[extLog[l].context].level = setv.levelIntP[1]
          /\ extLog[l].level # setv.levelIntP[1]


-----------------------------------------------------------------------------
(* mystrcpy and mystrcat, PmLogCtlUtil.c *)

MaxDstSize == 3     \* largest destination buffer
MaxSrcLen == 4      \* longest source string
StrAlphabet == {97, 98}

\* dst[i] = byte; an index outside the buffer is recorded in `written` only
StoreByte(b, i, byte) ==
    [b EXCEPT !.written = @ \cup {i},
              !.dst = IF i + 1 \in DOMAIN @ THEN [@ EXCEPT ![i + 1] = byte] ELSE @]

\* memcpy(dst + off, src, n)
Memcpy(b, off, src, n) ==
    [b EXCEPT !.written = @ \cup { off + k : k \in 0..(n - 1) },
              !.dst = [i \in DOMAIN @ |->
                          IF i - 1 >= off /\ i - 1 < off + n THEN src[i - off] ELSE @[i]]]

mystrcpy_Untruncated(b) ==
    IF b.dstSize < 1
    THEN [b |-> b, msgs |-> <<[t |-> "mystrcpy invalid dst size"]>>]
    ELSE IF b.src = NULL
    THEN [b |-> StoreByte(b, 0, 0), msgs |-> <<[t |-> "mystrcpy null src"]>>]
    ELSE [b |-> StoreByte(Memcpy(StoreByte(b, 0, 0), 0, b.src, Len(b.src)), Len(b.src), 0),
          msgs |-> <<>>]

\* mystrcpy(dst, dstSize, src), PmLogCtlUtil.c:47-81: the buffer it leaves
\* and the messages it prints
mystrcpy(b) ==
    IF b.dstSize < 1
    THEN [b |-> b, msgs |-> <<[t |-> "mystrcpy invalid dst size"]>>]
    ELSE
    LET b1 == StoreByte(b, 0, 0)
    IN  IF b.src = NULL
        THEN [b |-> b1, msgs |-> <<[t |-> "mystrcpy null src"]>>]
        ELSE
        LET over == Len(b.src) >= b.dstSize
            srcLen == IF over THEN b.dstSize - 1 ELSE Len(b.src)
        IN  [b |-> StoreByte(Memcpy(b1, 0, b.src, srcLen), srcLen, 0),
             msgs |-> IF over THEN <<[t |-> "mystrcpy buffer overflow", src |-> b.src]>>
                      ELSE <<>>]

\* mystrcat(dst, dstSize, src), PmLogCtlUtil.c:90-143
mystrcat(b) ==
    IF b.dstSize < 1
    THEN [b |-> b, msgs |-> <<[t |-> "mystrcat invalid dst size"]>>]
    ELSE
    LET dstLen == CStrlen(b.dst)
    IN  IF dstLen >= b.dstSize
        THEN [b |-> b, msgs |-> <<[t |-> "mystrcat invalid dst len"]>>]
        ELSE IF b.src = NULL
        THEN [b |-> b, msgs |-> <<[t |-> "mystrcat null src"]>>]
        ELSE IF Len(b.src) < 1
        THEN [b |-> b, msgs |-> <<>>]
        ELSE
        LET maxLen == (b.dstSize - 1) - dstLen
            over == Len(b.src) > maxLen
            srcLen == IF over THEN maxLen ELSE Len(b.src)
        IN  [b |-> IF srcLen > 0
                   THEN StoreByte(Memcpy(b, dstLen, b.src, srcLen), dstLen + srcLen, 0)
                   ELSE b,
             msgs |-> IF over THEN <<[t |-> "mystrcat buffer overflow"]>> ELSE <<>>]

\* Buffers of dstSize bytes that hold a NUL-terminated string
Buffers(dstSize) ==
    { d \in [1..dstSize -> StrAlphabet \cup {0}] :
        dstSize = 0 \/ \E i \in 1..dstSize : d[i] = 0 }

StrCalls ==
    UNION { { [fn |-> fn, dstSize |-> n, dst |-> d, dst0 |-> d, src |-> src, written |-> {}] :
                fn \in {"mystrcpy", "mystrcat"},
                d \in Buffers(n),
                src \in StrsUpTo(StrAlphabet, MaxSrcLen) \cup {NULL} } :
            n \in 0..MaxDstSize }

InitStr ==
    /\ registry = <<>> /\ registry0 = <<>> /\ extLog = <<>> /\ stale = 0
    /\ flag_silence = FALSE
    /\ argv = <<>> /\ result = "none" /\ out = <<>> /\ err = <<>>
    /\ snapshot = EmptyContextsInfo
    /\ mName = <<>> /\ mPattern = NULL /\ mResult = FALSE
    /\ setv = <<>> /\ kv = <<>>
    /\ pc = "str"
    /\ strv \in StrCalls

\* The lines of msgs behind the stream
RECURSIVE ErrPrintAll(_, _)
ErrPrintAll(stream, msgs) ==
    IF msgs = <<>> THEN stream
    ELSE ErrPrintAll(ErrPrint(stream, Head(msgs)), Tail(msgs))

StrReturn(r) ==
    /\ strv' = r.b
    /\ err' = ErrPrintAll(err, r.msgs)
    /\ pc' = "done"
    /\ UNCHANGED <<registry, registry0, extLog, stale, flag_silence, argv, result, out,
                   snapshot, mName, mPattern, mResult, setv, kv>>

MystrcpyCall == pc = "str" /\ strv.fn = "mystrcpy" /\ StrReturn(mystrcpy(strv))

MystrcatCall == pc = "str" /\ strv.fn = "mystrcat" /\ StrReturn(mystrcat(strv))

NextStr ==
    \/ MystrcpyCall
    \/ MystrcatCall

SpecStr == InitStr /\ [][NextStr]_vars

\* The first n bytes of str, all of it when it is shorter
Prefix(str, n) == SubSeq(str, 1, IF n < Len(str) THEN n ELSE Len(str))

\* C17: called on a buffer of dstSize >= 1 bytes that holds a
\* NUL-terminated string, mystrcpy and mystrcat write no byte outside
\* dst[0..dstSize-1] and leave a NUL within the buffer; mystrcpy leaves the
\* first dstSize-1 bytes of src (all of src when it is shorter, the empty
\* string for a NULL src), mystrcat leaves the old string followed by as
\* many of the first bytes of src as dstSize-1 allows (the old string alone
\* for a NULL src).
C17_BoundedCopyAndAppend ==
    pc = "done" /\ strv # <<>> /\ strv.dstSize >= 1 =>
        LET old == CStr(strv.dst0)
            new == CStr(strv.dst)
        IN  /\ strv.written \subseteq 0..(strv.dstSize - 1)
            /\ \E i \in 1..strv.dstSize : strv.dst[i] = 0
            /\ Len(new) <= strv.dstSize - 1
            /\ strv.fn = "mystrcpy" =>
                  new = IF strv.src = NULL THEN <<>>
                        ELSE Prefix(strv.src, strv.dstSize - 1)
            /\ strv.fn = "mystrcat" =>
                  new = IF strv.src = NULL THEN old
                        ELSE old \o Prefix(strv.src, strv.dstSize - 1 - Len(old))

\* mystrcat cut the source to the one byte that was left in the buffer
C17_Witness ==
    /\ pc = "done" /\ strv # <<>> /\ strv.fn = "mystrcat"
    /\ strv.dstSize = 3 /\ strv.src # NULL /\ Len(strv.src) >= 2
    /\ CStrlen(strv.dst0) = 1
    /\ CStr(strv.dst) = CStr(strv.dst0) \o <<strv.src[1]>>
    /\ \E k \in 1..Len(err) : err[k].t = "mystrcat buffer overflow"

====
